---------------------------- MODULE Spec2Model ----------------------------
(***************************************************************************)
(* Mind-map tree engine of the Canvas component (src/src/components/       *)
(* Canvas.tsx) and of the App shell (src/src/App.tsx).                     *)
(*                                                                         *)
(* The tree is the React state `mindMap` owned by App.  Every handler of   *)
(* Canvas is a closure of the render that created it: it reads the         *)
(* `mindMap`, `contextMenu` and `modal` of that render.  A handler that    *)
(* calls setTimeout(() => reorganizeMindMap(), 10) hands the timer the     *)
(* reorganizeMindMap of its own render, so the timer carries the tree that *)
(* render saw.  The model keeps that tree in the timer entry.              *)
(***************************************************************************)
EXTENDS Integers, Sequences, FiniteSets, TLC

VARIABLES
    mindMap,      \* App state: the tree, or NoMap before the first map
    mapRequest,   \* the topic handleGenerateMap is awaiting a map for, or Null
    contextMenu,  \* contextMenu.nodeId, Null when the menu is closed
    modal,        \* modal.nodeId, Null when the modal is closed
    pending,      \* handleGenerateAINodes calls suspended at their await
    timers,       \* pending 10 ms timers, oldest first: the tree each closes over
    effectTimer,  \* the 100 ms timer of the organizing effect is armed
    now,          \* Date.now()
    lastOp,       \* history: the last handler that ran, and its target
    toggled,      \* history: progress of a collapse / re-layout double toggle
    steps,        \* history: the number of handler runs so far
    stage,        \* stageRef.current: the Konva stage's scale and offset
    localStorage, \* the browser's localStorage: the caches of aiService
    returned      \* history: how the last call of aiService completed

vars == <<mindMap, mapRequest, contextMenu, modal, pending, timers,
          effectTimer, now, lastOp, toggled, steps, stage, localStorage,
          returned>>

-----------------------------------------------------------------------------
(* Bounds of the model *)

MaxNodes == 4
MaxTimers == 1
MaxPending == 2
MaxClock == 1
MaxSteps == 9
MaxApplied == 3
MaxTree == 5

(* Layout constants, NODE_SPACING *)
HORIZONTAL == 120
VERTICAL == 200
NODE_WIDTH == 160

(* App.tsx places the children of a new map 150 below their parent *)
INITIAL_LEVEL == 150
ROOT_Y == 100

(* window.innerWidth and containerRef.current.offsetWidth of the session *)
InnerWidth == 1200
OffsetWidth == 1000

-----------------------------------------------------------------------------
(* Values *)

Null == <<>>
RootId == <<"root">>
NoMap == [none |-> TRUE]
NoNode == [none |-> TRUE]

(* A label is a sequence of characters; " " is the only whitespace used *)
IsSpace(c) == c = " "

RECURSIVE TrimStart(_)
TrimStart(s) ==
    IF s = <<>> THEN s
    ELSE IF IsSpace(Head(s)) THEN TrimStart(Tail(s)) ELSE s

RECURSIVE TrimEnd(_)
TrimEnd(s) ==
    IF s = <<>> THEN s
    ELSE IF IsSpace(s[Len(s)]) THEN TrimEnd(SubSeq(s, 1, Len(s) - 1)) ELSE s

(* String.prototype.trim *)
Trim(s) == TrimEnd(TrimStart(s))

(* Texts the user can type and labels the collaborator can return *)
Topics == { <<"t">> }
ManualTexts == { <<" ", "a">>, <<" ">> }
Batches == { << <<"b">> >>, << <<" ">>, <<"b", " ">>, <<"c">> >> }

(* Outlines generateMindMapStructure can resolve with *)
Leaf(t) == [text |-> t, children |-> <<>>]
Outlines ==
    { << [text |-> <<"p">>, children |-> << Leaf(<<"r">>) >>] >>,
      << [text |-> <<"p">>, children |-> << Leaf(<<"r">>) >>], Leaf(<<" ">>) >> }

(* Points a drag can end at *)
DragPoints == { <<7, 9>> }

-----------------------------------------------------------------------------
(* Tree helpers *)

RECURSIVE SumSeq(_)
SumSeq(s) == IF s = <<>> THEN 0 ELSE Head(s) + SumSeq(Tail(s))

RECURSIVE Size(_)
Size(node) ==
    1 + SumSeq([i \in DOMAIN node.children |-> Size(node.children[i])])

RECURSIVE FlattenSeq(_)
FlattenSeq(ss) == IF ss = <<>> THEN <<>> ELSE Head(ss) \o FlattenSeq(Tail(ss))

(* Every node of the tree in depth-first pre-order *)
RECURSIVE Nodes(_)
Nodes(node) ==
    <<node>> \o FlattenSeq([i \in DOMAIN node.children |-> Nodes(node.children[i])])

(* A renderNodes that goes on below a collapsed node *)
renderNodesAll(node) == Nodes(node)

(* The nodes renderNodes draws: nothing below a collapsed node *)
RECURSIVE renderNodes(_)
renderNodes(node) ==
    <<node>> \o
    (IF node.isCollapsed # "true"
        THEN FlattenSeq([i \in DOMAIN node.children |-> renderNodes(node.children[i])])
        ELSE <<>>)

SeqToSet(s) == { s[i] : i \in DOMAIN s }

IdsOf(node) == { n.id : n \in SeqToSet(Nodes(node)) }
VisibleIds(node) == { n.id : n \in SeqToSet(renderNodes(node)) }

(* findNodeById(nodes, id): depth-first, the first match *)
RECURSIVE findNodeById(_, _)
findNodeById(nodes, id) ==
    IF nodes = <<>> THEN NoNode
    ELSE LET node == Head(nodes)
         IN  IF node.id = id THEN node
             ELSE LET foundNode == findNodeById(node.children, id)
                  IN  IF foundNode # NoNode THEN foundNode
                      ELSE findNodeById(Tail(nodes), id)

Max(a, b) == IF a >= b THEN a ELSE b

-----------------------------------------------------------------------------
(* reorganizeMindMap: the top-down tree layout.  Every subtree width is a  *)
(* multiple of 20 (220 for a leaf, sums of widths plus gaps of 60), so the *)
(* halves the code takes are whole numbers and \div is exact.              *)

(* A calculateSubtreeWidth that counts the node and not its children *)
calculateSubtreeWidthOwn(node) == NODE_WIDTH + HORIZONTAL \div 2

(* A calculateSubtreeWidth that does not look at the collapsed flag *)
RECURSIVE calculateSubtreeWidthOpen(_)
calculateSubtreeWidthOpen(node) ==
    IF Len(node.children) = 0
    THEN NODE_WIDTH + HORIZONTAL \div 2
    ELSE LET childrenSubtreeWidths ==
                 [i \in DOMAIN node.children |->
                     calculateSubtreeWidthOpen(node.children[i])]
         IN  Max(NODE_WIDTH + HORIZONTAL \div 2,
                 SumSeq(childrenSubtreeWidths)
                     + (Len(childrenSubtreeWidths) - 1) * (HORIZONTAL \div 2))

RECURSIVE calculateSubtreeWidth(_)
calculateSubtreeWidth(node) ==
    IF node.isCollapsed = "true" \/ Len(node.children) = 0
    THEN NODE_WIDTH + HORIZONTAL \div 2
    ELSE LET childrenSubtreeWidths ==
                 [i \in DOMAIN node.children |-> calculateSubtreeWidth(node.children[i])]
             totalChildrenWidth == SumSeq(childrenSubtreeWidths)
             spacingBetweenChildren ==
                 (IF Len(childrenSubtreeWidths) > 0
                     THEN Len(childrenSubtreeWidths) - 1 ELSE 0) * (HORIZONTAL \div 2)
         IN  Max(NODE_WIDTH + HORIZONTAL \div 2,
                 totalChildrenWidth + spacingBetweenChildren)

(* A positionNodes that places a child one level below the child's own   *)
(* stored y instead of its parent's y                                    *)
RECURSIVE positionNodesDrift(_, _, _)
positionNodesDrift(node, x, y) ==
    LET placed == [node EXCEPT !.x = x, !.y = y]
    IN  IF node.isCollapsed = "true" \/ Len(node.children) = 0
        THEN placed
        ELSE LET widths == [i \in DOMAIN node.children |->
                               calculateSubtreeWidth(node.children[i])]
                 totalLayoutWidth ==
                     SumSeq(widths) + (Len(widths) - 1) * (HORIZONTAL \div 2)
                 currentChildX(i) ==
                     x - totalLayoutWidth \div 2
                       + SumSeq(SubSeq(widths, 1, i - 1))
                       + (i - 1) * (HORIZONTAL \div 2)
             IN  [placed EXCEPT !.children =
                     [i \in DOMAIN node.children |->
                         positionNodesDrift(node.children[i],
                                            currentChildX(i) + widths[i] \div 2,
                                            node.children[i].y + VERTICAL)]]

(* A positionNodes that moves on by one node footprint after each child,  *)
(* whatever the width of the child's subtree                             *)
RECURSIVE positionNodesPacked(_, _, _)
positionNodesPacked(node, x, y) ==
    LET placed == [node EXCEPT !.x = x, !.y = y]
    IN  IF node.isCollapsed = "true" \/ Len(node.children) = 0
        THEN placed
        ELSE LET widths == [i \in DOMAIN node.children |->
                               calculateSubtreeWidth(node.children[i])]
                 totalLayoutWidth ==
                     SumSeq(widths) + (Len(widths) - 1) * (HORIZONTAL \div 2)
                 currentChildX(i) ==
                     x - totalLayoutWidth \div 2
                       + (i - 1) * (NODE_WIDTH + HORIZONTAL \div 2)
             IN  [placed EXCEPT !.children =
                     [i \in DOMAIN node.children |->
                         positionNodesPacked(node.children[i],
                                             currentChildX(i) + widths[i] \div 2,
                                             y + VERTICAL)]]

(* A positionNodes that puts the children on the level of their parent   *)
RECURSIVE positionNodesFlat(_, _, _)
positionNodesFlat(node, x, y) ==
    LET placed == [node EXCEPT !.x = x, !.y = y]
    IN  IF node.isCollapsed = "true" \/ Len(node.children) = 0
        THEN placed
        ELSE LET widths == [i \in DOMAIN node.children |->
                               calculateSubtreeWidth(node.children[i])]
                 totalLayoutWidth ==
                     SumSeq(widths) + (Len(widths) - 1) * (HORIZONTAL \div 2)
                 currentChildX(i) ==
                     x - totalLayoutWidth \div 2
                       + SumSeq(SubSeq(widths, 1, i - 1))
                       + (i - 1) * (HORIZONTAL \div 2)
             IN  [placed EXCEPT !.children =
                     [i \in DOMAIN node.children |->
                         positionNodesFlat(node.children[i],
                                           currentChildX(i) + widths[i] \div 2,
                                           y)]]

(* A positionNodes that starts the children block at the parent's x       *)
RECURSIVE positionNodesLeft(_, _, _)
positionNodesLeft(node, x, y) ==
    LET placed == [node EXCEPT !.x = x, !.y = y]
    IN  IF node.isCollapsed = "true" \/ Len(node.children) = 0
        THEN placed
        ELSE LET widths == [i \in DOMAIN node.children |->
                               calculateSubtreeWidth(node.children[i])]
                 currentChildX(i) ==
                     x + SumSeq(SubSeq(widths, 1, i - 1))
                       + (i - 1) * (HORIZONTAL \div 2)
             IN  [placed EXCEPT !.children =
                     [i \in DOMAIN node.children |->
                         positionNodesLeft(node.children[i],
                                           currentChildX(i) + widths[i] \div 2,
                                           y + VERTICAL)]]

RECURSIVE positionNodes(_, _, _)
positionNodes(node, x, y) ==
    LET placed == [node EXCEPT !.x = x, !.y = y]
    IN  IF node.isCollapsed = "true" \/ Len(node.children) = 0
        THEN placed
        ELSE LET validChildren == node.children
                 widths == [i \in DOMAIN validChildren |->
                               calculateSubtreeWidth(validChildren[i])]
                 spacingBetweenChildren ==
                     (IF Len(validChildren) > 0 THEN Len(validChildren) - 1 ELSE 0)
                         * (HORIZONTAL \div 2)
                 totalLayoutWidth == SumSeq(widths) + spacingBetweenChildren
                 \* currentChildX when the forEach reaches child i
                 currentChildX(i) ==
                     x - totalLayoutWidth \div 2
                       + SumSeq(SubSeq(widths, 1, i - 1))
                       + (i - 1) * (HORIZONTAL \div 2)
             IN  [placed EXCEPT !.children =
                     [i \in DOMAIN validChildren |->
                         positionNodes(validChildren[i],
                                       currentChildX(i) + widths[i] \div 2,
                                       y + VERTICAL)]]

(* A layout pass that anchors the root at the x the root already holds *)
reorganizeMindMapFromRoot(map) == positionNodes(map, map.x, ROOT_Y)

(* The tree a layout pass publishes when its closure holds `map` *)
reorganizeMindMap(map) == positionNodes(map, OffsetWidth \div 2, ROOT_Y)

-----------------------------------------------------------------------------
(* The state updaters of the handlers *)

(* An updateNode that moves the node it is given without comparing ids *)
updateNodePositionTop(node, nodeId, x, y) == [node EXCEPT !.x = x, !.y = y]

(* updateNode of updateNodePosition *)
RECURSIVE updateNodePosition(_, _, _, _)
updateNodePosition(node, nodeId, x, y) ==
    IF node.id = nodeId THEN [node EXCEPT !.x = x, !.y = y]
    ELSE IF Len(node.children) > 0
    THEN [node EXCEPT !.children =
             [i \in DOMAIN node.children |->
                 updateNodePosition(node.children[i], nodeId, x, y)]]
    ELSE node

(* !node.isCollapsed, an absent flag reading as false *)
Negate(flag) == IF flag = "true" THEN "false" ELSE "true"

(* updateNode of handleCollapse *)
RECURSIVE toggleCollapse(_, _)
toggleCollapse(node, nodeId) ==
    IF node.id = nodeId THEN [node EXCEPT !.isCollapsed = Negate(node.isCollapsed)]
    ELSE IF Len(node.children) > 0
    THEN [node EXCEPT !.children =
             [i \in DOMAIN node.children |-> toggleCollapse(node.children[i], nodeId)]]
    ELSE node

(* A deleteNode that filters the children of the root only *)
deleteNodeShallow(node, nodeId) ==
    IF node.id = nodeId THEN NoNode
    ELSE [node EXCEPT !.children =
             SelectSeq(node.children, LAMBDA child : child.id # nodeId)]

(* deleteNode of handleDelete; NoNode stands for its null *)
RECURSIVE deleteNode(_, _)
deleteNode(node, nodeId) ==
    IF node.id = nodeId THEN NoNode
    ELSE LET kept == SelectSeq(node.children, LAMBDA child : child.id # nodeId)
             mapped == [i \in DOMAIN kept |-> deleteNode(kept[i], nodeId)]
         IN  [node EXCEPT !.children = SelectSeq(mapped, LAMBDA child : child # NoNode)]

(* newNode of handleAddManualNode *)
manualNode(parentNode, text, t) ==
    [id |-> <<"node", t>>, text |-> Trim(text), children |-> <<>>,
     isCollapsed |-> "false", x |-> parentNode.x, y |-> parentNode.y + VERTICAL]

(* updateNode of handleAddManualNode *)
RECURSIVE addManualNode(_, _, _)
addManualNode(node, nodeId, newNode) ==
    IF node.id = nodeId
    THEN [node EXCEPT !.isCollapsed = "false", !.children = Append(node.children, newNode)]
    ELSE IF Len(node.children) > 0
    THEN [node EXCEPT !.children =
             [i \in DOMAIN node.children |->
                 addManualNode(node.children[i], nodeId, newNode)]]
    ELSE node

(* subtopics.filter(topic => !!topic && topic.trim() !== '') *)
filterSubtopics(subtopics) == SelectSeq(subtopics, LAMBDA topic : Trim(topic) # <<>>)

(* newChildren of handleGenerateAINodes, built at the matched node *)
newChildren(node, subtopics, t) ==
    LET kept == filterSubtopics(subtopics)
    IN  [index \in DOMAIN kept |->
            [id |-> <<"node", t, index - 1>>, text |-> Trim(kept[index]),
             children |-> <<>>, isCollapsed |-> "false",
             x |-> node.x, y |-> node.y + VERTICAL]]

(* An updateNode that puts the new children before the existing ones *)
RECURSIVE addAINodesFront(_, _, _, _)
addAINodesFront(node, nodeId, subtopics, t) ==
    IF node.id = nodeId
    THEN [node EXCEPT !.isCollapsed = "false",
                      !.children = newChildren(node, subtopics, t) \o node.children]
    ELSE IF Len(node.children) > 0
    THEN [node EXCEPT !.children =
             [i \in DOMAIN node.children |->
                 addAINodesFront(node.children[i], nodeId, subtopics, t)]]
    ELSE node

(* updateNode of handleGenerateAINodes *)
RECURSIVE addAINodes(_, _, _, _)
addAINodes(node, nodeId, subtopics, t) ==
    IF node.id = nodeId
    THEN [node EXCEPT !.isCollapsed = "false",
                      !.children = node.children \o newChildren(node, subtopics, t)]
    ELSE IF Len(node.children) > 0
    THEN [node EXCEPT !.children =
             [i \in DOMAIN node.children |->
                 addAINodes(node.children[i], nodeId, subtopics, t)]]
    ELSE node

(* A rootNode whose children are given the id of the root *)
newMindMapReserved(topic, outline, t) ==
    [id |-> RootId, text |-> topic,
     children |-> [i \in DOMAIN outline |->
                      [id |-> RootId, text |-> outline[i].text, children |-> <<>>,
                       isCollapsed |-> "undefined",
                       x |-> InnerWidth \div 2, y |-> ROOT_Y + INITIAL_LEVEL]],
     isCollapsed |-> "undefined", x |-> InnerWidth \div 2, y |-> ROOT_Y]

(* rootNode of handleGenerateMap for a structured outline *)
newMindMap(topic, outline, t) ==
    LET rootX == InnerWidth \div 2
        subNode(nodeId, subChild, subIndex) ==
            [id |-> nodeId \o <<"sub", subIndex>>, text |-> subChild.text,
             children |-> <<>>, isCollapsed |-> "undefined",
             x |-> rootX, y |-> ROOT_Y + INITIAL_LEVEL + INITIAL_LEVEL]
        childNode(child, index) ==
            LET nodeId == <<"node", t, index>>
            IN  [id |-> nodeId, text |-> child.text,
                 children |-> [j \in DOMAIN child.children |->
                                  subNode(nodeId, child.children[j], j - 1)],
                 isCollapsed |-> "undefined",
                 x |-> rootX, y |-> ROOT_Y + INITIAL_LEVEL]
    IN  [id |-> RootId, text |-> topic,
         children |-> [i \in DOMAIN outline |-> childNode(outline[i], i - 1)],
         isCollapsed |-> "undefined", x |-> rootX, y |-> ROOT_Y]

-----------------------------------------------------------------------------
(* History values *)

Op(op, id) == [op |-> op, id |-> id]
NoToggle == [stage |-> 0]

(* The double toggle stops being followed when anything else changes the tree *)
Abandon == toggled' = NoToggle

(* A suspended handleGenerateAINodes: the modal.nodeId and the mindMap of  *)
(* the render whose button was clicked.  deleted is history: the node was  *)
(* removed by a delete while the request was pending.                      *)
Request(nodeId, closure) == [nodeId |-> nodeId, closure |-> closure, deleted |-> FALSE]

(* One more handler runs, within the horizon of the model *)
Count == steps < MaxSteps /\ steps' = steps + 1

RemoveAt(s, i) == SubSeq(s, 1, i - 1) \o SubSeq(s, i + 1, Len(s))

-----------------------------------------------------------------------------
(***************************************************************************)
(* The viewport.  The stage's scale and offset are JavaScript numbers; the *)
(* model computes them as exact rationals <<numerator, denominator>> in    *)
(* lowest terms with a positive denominator, so rounding is left out.      *)
(***************************************************************************)
RECURSIVE Gcd(_, _)
Gcd(a, b) == IF b = 0 THEN a ELSE Gcd(b, a % b)

Abs(n) == IF n < 0 THEN 0 - n ELSE n

Rat(n, d) ==
    LET sign == IF d < 0 THEN 0 - 1 ELSE 1
        g == Gcd(Abs(n), Abs(d))
    IN <<(sign * n) \div g, (sign * d) \div g>>

Whole(n) == <<n, 1>>

RatSub(a, b) == Rat(a[1] * b[2] - b[1] * a[2], a[2] * b[2])

RatMul(a, b) ==
    LET l == Rat(a[1], b[2])
        r == Rat(b[1], a[2])
    IN Rat(l[1] * r[1], l[2] * r[2])

RatDiv(a, b) == RatMul(a, Rat(b[2], b[1]))

(* const scaleBy = 1.1 *)
scaleBy == Rat(11, 10)

(* useState(1) for scale, useState({ x: 0, y: 0 }) for position *)
InitialStage == [scale |-> Whole(1), x |-> Whole(0), y |-> Whole(0)]

(* stage.getPointerPosition(): a point of the container, or null *)
Pointers == { [x |-> 30, y |-> 0], [x |-> 7, y |-> 20] }

(* where a drag of the stage itself can leave its offset *)
StageOffsets == { [x |-> 0 - 5, y |-> 3] }

(* a wheel handler that rescales the stage and leaves its offset alone *)
handleWheelUnanchored(st, pointerPosition, zoomIn) ==
    IF pointerPosition = Null THEN st
    ELSE LET oldScale == st.scale
             newScale == IF zoomIn THEN RatMul(oldScale, scaleBy)
                                   ELSE RatDiv(oldScale, scaleBy)
         IN [scale |-> newScale, x |-> st.x, y |-> st.y]

(* handleWheel: the stage after a wheel event, zoomIn being deltaY < 0 *)
handleWheel(st, pointerPosition, zoomIn) ==
    IF pointerPosition = Null THEN st
    ELSE LET oldScale == st.scale
             mousePointTo ==
                 [x |-> RatDiv(RatSub(Whole(pointerPosition.x), st.x), oldScale),
                  y |-> RatDiv(RatSub(Whole(pointerPosition.y), st.y), oldScale)]
             newScale == IF zoomIn THEN RatMul(oldScale, scaleBy)
                                   ELSE RatDiv(oldScale, scaleBy)
         IN [scale |-> newScale,
             x |-> RatSub(Whole(pointerPosition.x), RatMul(mousePointTo.x, newScale)),
             y |-> RatSub(Whole(pointerPosition.y), RatMul(mousePointTo.y, newScale))]

(***************************************************************************)
(* aiService.  JavaScript values are records tagged by kind, so that a     *)
(* string, an array, null and undefined are told apart.                    *)
(***************************************************************************)
Undefined == [kind |-> "undefined"]
JsNull == [kind |-> "null"]
JsNumber == [kind |-> "number"]
JsString(chars) == [kind |-> "string", value |-> chars]
JsArray(items) == [kind |-> "array", items |-> items]
JsObject(text, children) == [kind |-> "object", text |-> text, children |-> children]

(* what JSON.parse does on text that is not JSON *)
SyntaxError == [kind |-> "SyntaxError"]

(* a completed call: its value, or the exception it threw *)
Return(value, storage) == [kind |-> "return", value |-> value, storage |-> storage]
Throw(storage) == [kind |-> "throw", storage |-> storage]

(* topic.toLowerCase(), on the letters the topics are written with *)
toLowerCase(chars) ==
    [i \in DOMAIN chars |->
        CASE chars[i] = "J" -> "j"
          [] chars[i] = "S" -> "s"
          [] OTHER -> chars[i]]

(* String.prototype.includes *)
includes(chars, part) ==
    \E i \in 0..Len(chars) :
        /\ i + Len(part) <= Len(chars)
        /\ SubSeq(chars, i + 1, i + Len(part)) = part

(* getGenericSubtopics: the fallback labels, each label one word *)
getGenericSubtopics(topic) ==
    LET lowerTopic == toLowerCase(topic)
        labels ==
            IF includes(lowerTopic, <<"p", "y", "t", "h", "o", "n">>)
            THEN << <<"Basic Syntax & Data Types">>, <<"Control Flow & Functions">>,
                    <<"Data Structures">>, <<"Object-Oriented Programming">>,
                    <<"Libraries & Frameworks">>, <<"Web Development with Python">>,
                    <<"Data Science & ML">>, <<"Testing & Debugging">> >>
            ELSE IF \/ includes(lowerTopic, <<"j", "a", "v", "a", "s", "c", "r", "i", "p", "t">>)
                    \/ includes(lowerTopic, <<"j", "s">>)
            THEN << <<"Core Concepts & Syntax">>, <<"DOM Manipulation">>,
                    <<"Asynchronous JS">>, <<"Modern JS (ES6+)">>,
                    <<"Frameworks & Libraries">>, <<"State Management">>,
                    <<"Testing in JavaScript">>, <<"Performance Optimization">> >>
            ELSE IF /\ includes(lowerTopic, <<"w", "e", "b">>)
                    /\ includes(lowerTopic, <<"d", "e", "v", "e", "l", "o", "p">>)
            THEN << <<"HTML & CSS Fundamentals">>, <<"JavaScript Essentials">>,
                    <<"Frontend Frameworks">>, <<"Backend Development">>,
                    <<"Responsive Design">>, <<"Web Performance">>,
                    <<"Security Best Practices">>, <<"Deployment & DevOps">> >>
            ELSE IF \/ includes(lowerTopic, <<"m", "a", "c", "h", "i", "n", "e", " ",
                                              "l", "e", "a", "r", "n", "i", "n", "g">>)
                    \/ includes(lowerTopic, <<"m", "l">>)
            THEN << <<"Data Preprocessing">>, <<"Supervised Learning">>,
                    <<"Unsupervised Learning">>, <<"Neural Networks">>,
                    <<"Deep Learning">>, <<"Model Evaluation">>,
                    <<"Feature Engineering">>, <<"ML in Production">> >>
            ELSE IF includes(lowerTopic, <<"d", "a", "t", "a", " ",
                                           "s", "c", "i", "e", "n", "c", "e">>)
            THEN << <<"Data Collection & Cleaning">>, <<"Exploratory Data Analysis">>,
                    <<"Statistical Methods">>, <<"Machine Learning">>,
                    <<"Data Visualization">>, <<"Big Data Technologies">>,
                    <<"Communication & Storytelling">>, <<"Ethics in Data Science">> >>
            ELSE << <<"Overview">>, <<"Key Concepts">>, <<"Fundamentals">>,
                    <<"Advanced Topics">>, <<"Practical Applications">>,
                    <<"Tools & Technologies">>, <<"Best Practices">>,
                    <<"Resources & Learning">> >>
    IN [i \in DOMAIN labels |-> JsString(labels[i])]

(* { text: topic, children: getGenericSubtopics(topic).map(...) } *)
GenericStructure(topic) ==
    LET labels == getGenericSubtopics(topic)
    IN JsObject(JsString(topic),
                JsArray([i \in DOMAIN labels |-> JsObject(labels[i], JsArray(<<>>))]))

(* localStorage: an item per cache key, NoItem where getItem gives null *)
NoItem == [kind |-> "null"]
Item(value) == [kind |-> "json", of |-> value]

(* the topics the service is called with *)
ServiceTopics == { <<"t">>, <<"J", "S">> }

EmptyStorage ==
    [structure |-> [topic \in ServiceTopics |-> NoItem],
     simple |-> [topic \in ServiceTopics |-> NoItem]]

NotCalled == [kind |-> "none"]

(* typeof v === 'object' && typeof v.text === 'string' && Array.isArray(v.children) *)
IsStructure(v) ==
    /\ v.kind = "object"
    /\ v.text.kind = "string"
    /\ v.children.kind = "array"

ChildOf(label) == JsObject(JsString(label), JsArray(<<>>))

(* what axios.post gives for the structured request: it throws, or the     *)
(* response's text is missing, or it is text that JSON.parse reads as      *)
(* direct and whose code block JSON.parse reads as fenced                  *)
RequestError == [kind |-> "error"]
NoContent == [kind |-> "content", content |-> Undefined]
JsonContent(direct, fenced) ==
    [kind |-> "content", content |-> [kind |-> "text", direct |-> direct, fenced |-> fenced]]

StructuredResponses ==
    { RequestError,
      NoContent,
      JsonContent(SyntaxError, SyntaxError),
      JsonContent(SyntaxError, JsObject(JsString(<<"t">>), JsArray(<<ChildOf(<<"b">>)>>))),
      JsonContent(JsNull, SyntaxError),
      JsonContent(JsNumber, SyntaxError),
      JsonContent(JsObject(JsString(<<"t">>), Undefined), SyntaxError),
      JsonContent(JsObject(JsString(<<"t">>), JsArray(<<>>)), SyntaxError),
      JsonContent(JsObject(JsString(<<"t">>), JsArray(<<JsNull>>)), SyntaxError),
      JsonContent(JsObject(JsString(<<"t">>), JsArray(<<JsNull, ChildOf(<<"b">>)>>)), SyntaxError),
      JsonContent(JsObject(JsString(<<"t">>), JsArray(<<JsObject(Undefined, JsArray(<<>>))>>)),
                  SyntaxError),
      JsonContent(JsObject(JsString(<<"t">>), JsArray(<<ChildOf(<<"b">>), ChildOf(<<" ">>)>>)),
                  SyntaxError) }

(* the simple request: it throws, or the text is missing, or it is a       *)
(* string of characters                                                    *)
SimpleResponses ==
    { RequestError,
      NoContent,
      [kind |-> "content", content |-> JsString(<<>>)],
      [kind |-> "content", content |-> JsString(<<" ", ",", " ">>)],
      [kind |-> "content", content |-> JsString(<<"b", ",", " ", "c", ",">>)] }

(* content.split(','): the pieces between the commas *)
RECURSIVE split(_)
split(chars) ==
    IF \A i \in DOMAIN chars : chars[i] # ","
    THEN <<chars>>
    ELSE LET i == CHOOSE i \in DOMAIN chars :
                      /\ chars[i] = ","
                      /\ \A j \in 1..(i - 1) : chars[j] # ","
         IN <<SubSeq(chars, 1, i - 1)>> \o split(SubSeq(chars, i + 1, Len(chars)))

(* .map(topic => topic.trim()).filter(topic => topic.length > 0) *)
TrimmedPieces(pieces) ==
    LET trimmed == [i \in DOMAIN pieces |-> Trim(pieces[i])]
        kept == SelectSeq(trimmed, LAMBDA piece : Len(piece) > 0)
    IN [i \in DOMAIN kept |-> JsString(kept[i])]

(* generateMindMapStructure *)
generateMindMapStructure(topic, storage, response) ==
    LET cachedData == storage.structure[topic]
        fallback == GenericStructure(topic)
    IN IF cachedData.kind = "json" /\ IsStructure(cachedData.of)
       THEN Return(cachedData.of, storage)
       ELSE LET cleared == [storage EXCEPT !.structure[topic] = NoItem]
            IN IF response.kind = "error" THEN Return(fallback, cleared)
               ELSE IF response.content.kind = "undefined" THEN Return(fallback, cleared)
               ELSE LET content == response.content
                        mindMapStructure ==
                            IF content.direct.kind # "SyntaxError" THEN content.direct
                            ELSE content.fenced
                    IN IF mindMapStructure.kind = "SyntaxError" THEN Return(fallback, cleared)
                       \* typeof null is 'object', and reading null.text
                       \* throws into the catch block
                       ELSE IF mindMapStructure.kind = "null" THEN Return(fallback, cleared)
                       ELSE IF ~IsStructure(mindMapStructure) THEN Return(fallback, cleared)
                       ELSE Return(mindMapStructure,
                                   [cleared EXCEPT !.structure[topic] = Item(mindMapStructure)])

(* generateSimpleSubtopics *)
generateSimpleSubtopics(topic, storage, response) ==
    LET cachedData == storage.simple[topic]
    IN IF cachedData.kind = "json" THEN Return(cachedData.of, storage)
       ELSE IF response.kind = "error" THEN Return(getGenericSubtopics(topic), storage)
       ELSE IF response.content.kind = "undefined" \/ response.content.value = <<>>
       THEN Return(getGenericSubtopics(topic), storage)
       ELSE LET subtopics == TrimmedPieces(split(response.content.value))
            IN IF Len(subtopics) > 0
               THEN Return(subtopics, [storage EXCEPT !.simple[topic] = Item(subtopics)])
               ELSE Return(getGenericSubtopics(topic), storage)

(* child => !!child, then child => child.text *)
ChildTexts(items) ==
    LET truthy == SelectSeq(items, LAMBDA child : child.kind # "null")
    IN [i \in DOMAIN truthy |->
           IF truthy[i].kind = "object" THEN truthy[i].text ELSE Undefined]

(* generateSubtopics *)
generateSubtopics(topic, storage, structured, simple) ==
    LET attempt == generateMindMapStructure(topic, storage, structured)
        mindMapStructure == attempt.value
    IN IF attempt.kind = "throw"
       THEN Return(getGenericSubtopics(topic), attempt.storage)
       ELSE IF /\ mindMapStructure.kind = "object"
               /\ mindMapStructure.children.kind = "array"
               /\ Len(mindMapStructure.children.items) > 0
       THEN Return(ChildTexts(mindMapStructure.children.items), attempt.storage)
       ELSE LET second == generateSimpleSubtopics(topic, attempt.storage, simple)
            IN IF second.kind = "throw"
               THEN Return(getGenericSubtopics(topic), second.storage)
               ELSE second

Init ==
    /\ mindMap = NoMap
    /\ mapRequest = Null
    /\ contextMenu = Null
    /\ modal = Null
    /\ pending = <<>>
    /\ timers = <<>>
    /\ effectTimer = FALSE
    /\ now = 0
    /\ lastOp = Op("init", Null)
    /\ toggled = NoToggle
    /\ steps = 0
    /\ stage = InitialStage
    /\ localStorage = EmptyStorage
    /\ returned = NotCalled

(* Date.now() advances.  Time is counted from the first map, and the clock *)
(* is read only where an id is made: by a map response, by the modal's    *)
(* add and by an expand response, so it moves only while one is awaited. *)
Tick ==
    /\ mindMap # NoMap
    /\ mapRequest # Null \/ modal # Null \/ pending # <<>>
    /\ now < MaxClock
    /\ now' = now + 1
    /\ UNCHANGED <<localStorage, returned, stage, mindMap, mapRequest, contextMenu, modal, pending, timers,
                   effectTimer, lastOp, toggled, steps>>

(* App.handleGenerateMap up to its await; the button is disabled while loading *)
HandleGenerateMap ==
    \E topic \in Topics :
        /\ Count
        /\ mapRequest = Null
        /\ Trim(topic) # <<>>
        /\ mapRequest' = topic
        /\ UNCHANGED <<localStorage, returned, stage, mindMap, contextMenu, modal, pending, timers, effectTimer,
                       now, lastOp, toggled>>

(* App.handleGenerateMap after its await: the new tree replaces the state. *)
(* Canvas stays mounted, so its menu, modal, requests and timers survive.  *)
GenerateMapResolved ==
    \E outline \in Outlines :
        /\ Count
        /\ mapRequest # Null
        /\ mindMap' = newMindMap(mapRequest, outline, now)
        /\ mapRequest' = Null
        /\ effectTimer' = TRUE
        /\ lastOp' = Op("generateMap", RootId)
        /\ Abandon
        /\ UNCHANGED <<localStorage, returned, stage, contextMenu, modal, pending, timers, now>>

(* A right click on a rendered node *)
ShowContextMenu ==
    /\ Count
    /\ mindMap # NoMap
    /\ \E nodeId \in VisibleIds(mindMap) :
        /\ contextMenu' = nodeId
        /\ UNCHANGED <<localStorage, returned, stage, mindMap, mapRequest, modal, pending, timers, effectTimer,
                       now, lastOp, toggled>>

CloseContextMenu ==
    /\ Count
    /\ contextMenu # Null
    /\ contextMenu' = Null
    /\ UNCHANGED <<localStorage, returned, stage, mindMap, mapRequest, modal, pending, timers, effectTimer,
                   now, lastOp, toggled>>

HandleExpand ==
    /\ Count
    /\ contextMenu # Null
    /\ modal' = contextMenu
    /\ contextMenu' = Null
    /\ UNCHANGED <<localStorage, returned, stage, mindMap, mapRequest, pending, timers, effectTimer, now,
                   lastOp, toggled>>

CloseModal ==
    /\ Count
    /\ modal # Null
    /\ modal' = Null
    /\ UNCHANGED <<localStorage, returned, stage, mindMap, mapRequest, contextMenu, pending, timers, effectTimer,
                   now, lastOp, toggled>>

(* The double toggle: a collapse of a published layout starts it, the      *)
(* collapse of the same node after one layout pass continues it.           *)
ToggleStep(nodeId) ==
    IF toggled.stage = 2 /\ toggled.id = nodeId
    THEN toggled' = [toggled EXCEPT !.stage = 3]
    ELSE IF lastOp.op \in {"timer", "effect"} /\ timers = <<>>
    THEN toggled' = [stage |-> 1, id |-> nodeId, before |-> mindMap]
    ELSE Abandon

HandleCollapse ==
    /\ Count
    /\ contextMenu # Null
    /\ mindMap # NoMap
    /\ Len(timers) < MaxTimers
    /\ mindMap' = toggleCollapse(mindMap, contextMenu)
    /\ timers' = Append(timers, mindMap)
    /\ contextMenu' = Null
    /\ effectTimer' = TRUE
    /\ lastOp' = Op("collapse", contextMenu)
    /\ ToggleStep(contextMenu)
    /\ UNCHANGED <<localStorage, returned, stage, mapRequest, modal, pending, now>>

(* The requests whose node the delete removes *)
MarkDeleted(before, after) ==
    [i \in DOMAIN pending |->
        IF pending[i].nodeId \in IdsOf(before) \ IdsOf(after)
        THEN [pending[i] EXCEPT !.deleted = TRUE] ELSE pending[i]]

(* A handleDelete without the guard on the root id *)
HandleDeleteUnguarded ==
    /\ Count
    /\ contextMenu # Null
    /\ mindMap # NoMap
    /\ Len(timers) < MaxTimers
    /\ LET updatedMap == deleteNode(mindMap, contextMenu)
       IN  /\ mindMap' = updatedMap
           /\ timers' = IF updatedMap # NoNode THEN Append(timers, mindMap) ELSE timers
           /\ pending' = pending
    /\ contextMenu' = Null
    /\ effectTimer' = TRUE
    /\ lastOp' = Op("delete", contextMenu)
    /\ Abandon
    /\ UNCHANGED <<localStorage, returned, stage, mapRequest, modal, now>>

HandleDelete ==
    /\ Count
    /\ contextMenu # Null
    /\ mindMap # NoMap
    /\ \/ /\ contextMenu = RootId
          /\ lastOp' = Op("deleteRejected", contextMenu)
          /\ UNCHANGED <<localStorage, returned, stage, mindMap, mapRequest, contextMenu, modal, pending, timers,
                         effectTimer, now, toggled>>
       \/ /\ contextMenu # RootId
          /\ Len(timers) < MaxTimers
          /\ mindMap' = deleteNode(mindMap, contextMenu)
          /\ timers' = Append(timers, mindMap)
          /\ pending' = MarkDeleted(mindMap, mindMap')
          /\ contextMenu' = Null
          /\ effectTimer' = TRUE
          /\ lastOp' = Op("delete", contextMenu)
          /\ Abandon
          /\ UNCHANGED <<localStorage, returned, stage, mapRequest, modal, now>>

(* A label check that lets every text through *)
validLabelAny(newNodeText) == TRUE

(* !newNodeText.trim() negated: the text the handler goes on with *)
validLabel(newNodeText) == Trim(newNodeText) # <<>>

HandleAddManualNodeWith(newNodeText) ==
        /\ Count
        /\ modal # Null
        /\ mindMap # NoMap
        /\ IF ~validLabel(newNodeText)
           THEN /\ lastOp' = Op("addRejected", modal)
                /\ UNCHANGED <<localStorage, returned, stage, mindMap, mapRequest, contextMenu, modal, pending,
                               timers, effectTimer, now, toggled>>
           ELSE
           LET parentNode == findNodeById(<<mindMap>>, modal)
           IN  \/ /\ parentNode = NoNode
                  /\ modal' = Null
                  /\ lastOp' = Op("addNotFound", modal)
                  /\ UNCHANGED <<localStorage, returned, stage, mindMap, mapRequest, contextMenu, pending, timers,
                                 effectTimer, now, toggled>>
               \/ /\ parentNode # NoNode
                  /\ Len(timers) < MaxTimers
                  /\ Size(mindMap) < MaxNodes
                  /\ mindMap' = addManualNode(mindMap, modal,
                                              manualNode(parentNode, newNodeText, now))
                  /\ timers' = Append(timers, mindMap)
                  /\ modal' = Null
                  /\ effectTimer' = TRUE
                  /\ lastOp' = Op("add", modal)
                  /\ Abandon
                  /\ UNCHANGED <<localStorage, returned, stage, mapRequest, contextMenu, pending, now>>

HandleAddManualNode == \E newNodeText \in ManualTexts : HandleAddManualNodeWith(newNodeText)

(* handleGenerateAINodes up to its await.  The modal stays open until the  *)
(* handler resumes, so the button can be clicked again.                    *)
HandleGenerateAINodes ==
    /\ Count
    /\ modal # Null
    /\ mindMap # NoMap
    /\ LET parentNode == findNodeById(<<mindMap>>, modal)
       IN  \/ /\ parentNode = NoNode
              /\ modal' = Null
              /\ lastOp' = Op("aiNotFound", modal)
              /\ UNCHANGED <<localStorage, returned, stage, mindMap, mapRequest, contextMenu, pending, timers,
                             effectTimer, now, toggled>>
           \/ /\ parentNode # NoNode
              /\ Len(pending) < MaxPending
              /\ pending' = Append(pending, Request(modal, mindMap))
              /\ lastOp' = Op("aiRequest", modal)
              /\ UNCHANGED <<localStorage, returned, stage, mindMap, mapRequest, contextMenu, modal, timers,
                             effectTimer, now, toggled>>

(* A handler whose catch block inserts a fallback label *)
generateAINodesFallback(prevMap, request, ok, subtopics, t) ==
    addAINodes(prevMap, request.nodeId,
               IF ok THEN subtopics ELSE << <<"b">> >>, t)

(* What the handler makes of the state when its await ends *)
generateAINodesResult(prevMap, request, ok, subtopics, t) ==
    IF ok THEN addAINodes(prevMap, request.nodeId, subtopics, t) ELSE prevMap

(* handleGenerateAINodes resumes with the subtopics: request i, batch given *)
AIResolvedAt(i, subtopics) ==
    /\ Count
    /\ Len(timers) < MaxTimers
    /\ mindMap' = generateAINodesResult(mindMap, pending[i], TRUE, subtopics, now)
    /\ Size(mindMap') <= MaxNodes
    /\ timers' = Append(timers, pending[i].closure)
    /\ pending' = RemoveAt(pending, i)
    /\ modal' = Null
    /\ effectTimer' = TRUE
    /\ lastOp' = Op("aiApplied", pending[i].nodeId)
    /\ Abandon
    /\ UNCHANGED <<localStorage, returned, stage, mapRequest, contextMenu, now>>

AIResolved == \E i \in DOMAIN pending, subtopics \in Batches : AIResolvedAt(i, subtopics)

(* handleGenerateAINodes resumes in its catch block *)
AIRejected ==
    \E i \in DOMAIN pending :
        /\ Count
        /\ mindMap' = generateAINodesResult(mindMap, pending[i], FALSE, <<>>, now)
        /\ pending' = RemoveAt(pending, i)
        /\ modal' = Null
        /\ lastOp' = Op("aiFailed", pending[i].nodeId)
        /\ Abandon
        /\ UNCHANGED <<localStorage, returned, stage, mapRequest, contextMenu, timers, effectTimer, now>>

(* onDragEnd of a rendered node *)
UpdateNodePosition ==
    /\ Count
    /\ mindMap # NoMap
    /\ Len(timers) < MaxTimers
    /\ \E nodeId \in VisibleIds(mindMap), p \in DragPoints :
        /\ mindMap' = updateNodePosition(mindMap, nodeId, p[1], p[2])
        /\ timers' = Append(timers, mindMap)
        /\ effectTimer' = TRUE
        /\ lastOp' = Op("drag", nodeId)
        /\ Abandon
        /\ UNCHANGED <<localStorage, returned, stage, mapRequest, contextMenu, modal, pending, now>>

(* A layout pass leaves a double toggle in progress one stage further *)
PassStep ==
    IF toggled.stage \in {1, 3}
    THEN toggled' = [toggled EXCEPT !.stage = toggled.stage + 1]
    ELSE IF toggled.stage = 2 THEN UNCHANGED toggled ELSE Abandon

(* The oldest 10 ms timer fires: reorganizeMindMap of the render that set it *)
TimerFires ==
    /\ Count
    /\ timers # <<>>
    /\ mindMap' = reorganizeMindMap(Head(timers))
    /\ timers' = Tail(timers)
    /\ effectTimer' = TRUE
    /\ lastOp' = Op("timer", RootId)
    /\ PassStep
    /\ UNCHANGED <<localStorage, returned, stage, mapRequest, contextMenu, modal, pending, now>>

(* The 100 ms timer of the organizing effect fires.  Every change of       *)
(* mindMap re-arms it, and a 10 ms timer set by that change is due first.  *)
EffectFires ==
    /\ Count
    /\ effectTimer
    /\ timers = <<>>
    /\ mindMap' = reorganizeMindMap(mindMap)
    /\ effectTimer' = TRUE
    /\ lastOp' = Op("effect", RootId)
    /\ IF toggled.stage \in {2, 4} THEN UNCHANGED toggled ELSE Abandon
    /\ UNCHANGED <<localStorage, returned, stage, mapRequest, contextMenu, modal, pending, timers, now>>

Next ==
    \/ Tick
    \/ HandleGenerateMap
    \/ GenerateMapResolved
    \/ ShowContextMenu
    \/ CloseContextMenu
    \/ HandleExpand
    \/ CloseModal
    \/ HandleCollapse
    \/ HandleDelete
    \/ HandleAddManualNode
    \/ HandleGenerateAINodes
    \/ AIResolved
    \/ AIRejected
    \/ UpdateNodePosition
    \/ TimerFires
    \/ EffectFires

Spec == Init /\ [][Next]_vars

-----------------------------------------------------------------------------
(* The state updaters and the layout pass as functions of the tree.  Each  *)
(* handler hands setMindMap a function of prevMap, and reorganizeMindMap   *)
(* is a function of the mindMap it closes over.  UpdaterSpec applies them  *)
(* to the trees they can be given: it starts from the trees of             *)
(* handleGenerateMap and applies one function per step, with Date.now()    *)
(* moving on between two inserts.                                          *)

(* Outlines the first map is made from: those of a session and the empty one *)
UpdaterOutlines == Outlines \cup { <<>> }

(* Labels generateSubtopics can resolve with, blank ones included *)
UpdaterBatches ==
    { << <<" ">>, <<"b", " ">>, <<"c">> >>,
      << <<" ">>, <<" ", " ">> >>,
      << <<"b">>, <<"c">>, <<"d">> >> }

(* The id of a node that is no longer in the tree *)
GoneId == <<"node", 0, 9>>

TargetIds == IdsOf(mindMap) \cup {GoneId}

(* History: the function of the last step found its target, or did not *)
Applied(op, nodeId) ==
    IF nodeId \in IdsOf(mindMap) THEN Op(op, Null) ELSE Op("notFound", nodeId)

(* One more function is applied, within the horizon of the model *)
UpdaterCount == steps < MaxApplied /\ steps' = steps + 1

UpdaterFrame ==
    UNCHANGED <<localStorage, returned, stage, mapRequest, contextMenu, modal, pending, timers, effectTimer,
                toggled>>

UpdaterInit ==
    /\ mindMap \in { newMindMap(topic, outline, 0) : topic \in Topics, outline \in UpdaterOutlines }
    /\ mapRequest = Null
    /\ contextMenu = Null
    /\ modal = Null
    /\ pending = <<>>
    /\ timers = <<>>
    /\ effectTimer = TRUE
    /\ now = 1
    /\ lastOp = Op("generateMap", RootId)
    /\ toggled = NoToggle
    /\ steps = 0
    /\ stage = InitialStage
    /\ localStorage = EmptyStorage
    /\ returned = NotCalled

(* reorganizeMindMap of a render that holds the current tree *)
ApplyReorganize ==
    /\ UpdaterCount
    /\ mindMap' = reorganizeMindMap(mindMap)
    /\ lastOp' = Op("layout", Null)
    /\ UNCHANGED now
    /\ UpdaterFrame

(* The updater of handleCollapse *)
ApplyCollapse(nodeId) ==
    /\ UpdaterCount
    /\ mindMap' = toggleCollapse(mindMap, nodeId)
    /\ lastOp' = Applied("collapse", nodeId)
    /\ UNCHANGED now
    /\ UpdaterFrame

(* The updater of handleDelete, which the handler reaches for no root id *)
ApplyDelete(nodeId) ==
    /\ UpdaterCount
    /\ nodeId # RootId
    /\ mindMap' = deleteNode(mindMap, nodeId)
    /\ lastOp' = Applied("delete", nodeId)
    /\ UNCHANGED now
    /\ UpdaterFrame

(* The updater of updateNodePosition *)
ApplyDrag(nodeId, p) ==
    /\ UpdaterCount
    /\ mindMap' = updateNodePosition(mindMap, nodeId, p[1], p[2])
    /\ lastOp' = Applied("drag", nodeId)
    /\ UNCHANGED now
    /\ UpdaterFrame

(* handleAddManualNode from its findNodeById on: nothing without a parent *)
ApplyAddManual(nodeId, newNodeText) ==
    /\ UpdaterCount
    /\ validLabel(newNodeText)
    /\ LET parentNode == findNodeById(<<mindMap>>, nodeId)
       IN  mindMap' = IF parentNode = NoNode THEN mindMap
                      ELSE addManualNode(mindMap, nodeId,
                                         manualNode(parentNode, newNodeText, now))
    /\ Size(mindMap') <= MaxTree
    /\ lastOp' = Applied("add", nodeId)
    /\ now' = now + 1
    /\ UpdaterFrame

(* The updater of handleGenerateAINodes *)
ApplyAddAI(nodeId, subtopics) ==
    /\ UpdaterCount
    /\ mindMap' = addAINodes(mindMap, nodeId, subtopics, now)
    /\ Size(mindMap') <= MaxTree
    /\ lastOp' = Applied("aiApplied", nodeId)
    /\ now' = now + 1
    /\ UpdaterFrame

UpdaterNext ==
    \/ ApplyReorganize
    \/ \E nodeId \in TargetIds : ApplyCollapse(nodeId)
    \/ \E nodeId \in TargetIds : ApplyDelete(nodeId)
    \/ \E nodeId \in TargetIds, p \in DragPoints : ApplyDrag(nodeId, p)
    \/ \E nodeId \in TargetIds, newNodeText \in ManualTexts :
          ApplyAddManual(nodeId, newNodeText)
    \/ \E nodeId \in TargetIds, subtopics \in UpdaterBatches :
          ApplyAddAI(nodeId, subtopics)

UpdaterSpec == UpdaterInit /\ [][UpdaterNext]_vars

(***************************************************************************)
(* The viewport on its own: wheel events and drags of the stage, with no   *)
(* map on the canvas.                                                      *)
(***************************************************************************)
MaxWheel == 4

ViewFrame ==
    UNCHANGED <<localStorage, returned, mindMap, mapRequest, contextMenu, modal, pending, timers,
                effectTimer, now, toggled>>

ViewCount ==
    /\ steps < MaxWheel
    /\ steps' = steps + 1

HandleWheelAt(pointerPosition, zoomIn) ==
    /\ ViewCount
    /\ stage' = handleWheel(stage, pointerPosition, zoomIn)
    /\ lastOp' = Op("wheel", Null)
    /\ ViewFrame

HandleWheel ==
    \E pointerPosition \in Pointers \cup {Null}, zoomIn \in BOOLEAN :
        HandleWheelAt(pointerPosition, zoomIn)

(* <Stage draggable>: Konva moves the stage itself, no handler runs *)
DragStage ==
    \E offset \in StageOffsets :
        /\ ViewCount
        /\ stage' = [stage EXCEPT !.x = Whole(offset.x), !.y = Whole(offset.y)]
        /\ lastOp' = Op("dragStage", Null)
        /\ ViewFrame

ViewNext ==
    \/ HandleWheel
    \/ DragStage

ViewSpec == Init /\ [][ViewNext]_vars

(***************************************************************************)
(* aiService on its own: calls of generateSubtopics and of                 *)
(* generateMindMapStructure against the caches in localStorage.            *)
(***************************************************************************)
MaxCalls == 2

ServiceFrame ==
    UNCHANGED <<mindMap, mapRequest, contextMenu, modal, pending, timers,
                effectTimer, now, toggled, stage>>

ServiceCount ==
    /\ steps < MaxCalls
    /\ steps' = steps + 1

GenerateSubtopicsWith(topic, structured, simple) ==
    LET call == generateSubtopics(topic, localStorage, structured, simple)
    IN /\ ServiceCount
       /\ lastOp' = Op("generateSubtopics", topic)
       /\ returned' = [kind |-> call.kind,
                       value |-> IF call.kind = "return" THEN call.value ELSE Undefined]
       /\ localStorage' = call.storage
       /\ ServiceFrame

GenerateSubtopics ==
    \E topic \in ServiceTopics, structured \in StructuredResponses,
       simple \in SimpleResponses :
        GenerateSubtopicsWith(topic, structured, simple)

GenerateMindMapStructure ==
    \E topic \in ServiceTopics, structured \in StructuredResponses :
        LET call == generateMindMapStructure(topic, localStorage, structured)
        IN /\ ServiceCount
           /\ lastOp' = Op("generateMindMapStructure", topic)
           /\ returned' = [kind |-> call.kind,
                           value |-> IF call.kind = "return" THEN call.value ELSE Undefined]
           /\ localStorage' = call.storage
           /\ ServiceFrame

ServiceNext ==
    \/ GenerateSubtopics
    \/ GenerateMindMapStructure

ServiceSpec == Init /\ [][ServiceNext]_vars

-----------------------------------------------------------------------------
(* Vocabulary of the properties *)

Last(s) == s[Len(s)]
IdSeq(nodes) == [i \in DOMAIN nodes |-> nodes[i].id]
UniqueIds(tree) == Cardinality(IdsOf(tree)) = Size(tree)
Resolves(tree, id) == findNodeById(<<tree>>, id) # NoNode

(* The ids of the subtree rooted at id, nothing when id does not resolve *)
SubtreeIds(tree, id) ==
    IF Resolves(tree, id) THEN IdsOf(findNodeById(<<tree>>, id)) ELSE {}

ChildIds(tree, id) == IdSeq(findNodeById(<<tree>>, id).children)

(* The id of the node that holds id among its children; Null for the root *)
ParentId(tree, id) ==
    LET holders == { n \in SeqToSet(Nodes(tree)) : id \in SeqToSet(IdSeq(n.children)) }
    IN  IF holders = {} THEN Null ELSE (CHOOSE n \in holders : TRUE).id

Position(tree, id) ==
    LET n == findNodeById(<<tree>>, id) IN <<n.x, n.y>>

IsCollapsed(tree, id) == findNodeById(<<tree>>, id).isCollapsed = "true"

(* The handlers that change the structure of the tree and set a 10 ms timer *)
StructuralOps == {"collapse", "delete", "add", "aiApplied"}

(* The timer that fires is the one the last handler set *)
OwnTimerFires == Len(timers) = 1 /\ TimerFires

-----------------------------------------------------------------------------
(* C1: at no time are two generation requests pending for the same node.   *)
AtMostOnePendingPerNode ==
    \A i, j \in DOMAIN pending : i # j => pending[i].nodeId # pending[j].nodeId

(* C2: in every reachable state no two nodes of the tree have the same id  *)
(* (the nesting of the records makes the structure a tree as it is).       *)
IdsAreUnique == mindMap # NoMap => UniqueIds(mindMap)

(* C3: when the re-layout timer a structural mutation set fires, with no   *)
(* other change of the tree in between, the tree it publishes is the       *)
(* layout of the post-mutation tree.                                       *)
RelayoutPublishesMutation ==
    [][(lastOp.op \in StructuralOps /\ OwnTimerFires)
          => mindMap' = reorganizeMindMap(mindMap)]_vars

(* C4: the response to an expand request whose node was deleted while the  *)
(* request was pending inserts nothing: the tree has the same nodes before *)
(* and after the response is handled.                                      *)
DeletedTargetResponseDiscarded ==
    [][\A i \in DOMAIN pending, subtopics \in Batches :
          (pending[i].deleted /\ AIResolvedAt(i, subtopics))
              => Nodes(mindMap') = Nodes(mindMap)]_vars

(* C5: a delete of a non-root node n in a tree with unique ids leaves      *)
(* exactly the nodes outside n's subtree, each with its parent, text,      *)
(* collapsed flag and position, and each parent's remaining children in    *)
(* their old order.  While the delete is the last handler that ran, the    *)
(* newest timer holds the tree the delete was applied to.                  *)
DeleteRemovesExactlySubtree ==
    (lastOp.op = "delete" /\ timers # <<>> /\ UniqueIds(Last(timers))) =>
        LET before == Last(timers)
            n == lastOp.id
        IN  /\ UniqueIds(mindMap)
            /\ IdsOf(mindMap) = IdsOf(before) \ SubtreeIds(before, n)
            /\ \A m \in IdsOf(mindMap) :
                /\ ParentId(mindMap, m) = ParentId(before, m)
                /\ findNodeById(<<mindMap>>, m).text = findNodeById(<<before>>, m).text
                /\ findNodeById(<<mindMap>>, m).isCollapsed
                       = findNodeById(<<before>>, m).isCollapsed
                /\ Position(mindMap, m) = Position(before, m)
                /\ ChildIds(mindMap, m)
                       = SelectSeq(ChildIds(before, m), LAMBDA c : c # n)

(* C5 witness: a node with a child of its own has been deleted *)
DeletedNodeWithChildren ==
    /\ lastOp.op = "delete"
    /\ timers # <<>>
    /\ UniqueIds(Last(timers))
    /\ Cardinality(SubtreeIds(Last(timers), lastOp.id)) >= 2
    /\ Size(mindMap) >= 2

(* C6: a delete intent on the root changes neither the tree nor the timers *)
(* nor the requests, and arms no re-layout.                                *)
RootDeleteRejected ==
    [][(contextMenu = RootId /\ HandleDelete)
          => UNCHANGED <<mindMap, timers, effectTimer, pending>>]_vars

(* C6 witness: a delete intent on the root of a map with children was refused *)
RootDeleteWasRefused ==
    /\ lastOp = Op("deleteRejected", RootId)
    /\ Size(mindMap) >= 2

(* C7: when the generation of an expand fails, the tree is left exactly as *)
(* it was and no re-layout is set.                                         *)
FailedExpandInsertsNothing ==
    [][AIRejected => UNCHANGED <<mindMap, timers>>]_vars

(* C7 witness: an expand has failed while its node was still in the tree *)
ExpandFailedOnLiveNode ==
    /\ lastOp.op = "aiFailed"
    /\ Resolves(mindMap, lastOp.id)

(* C8: once the response of an expand has been applied and the re-layout   *)
(* it set has run, every node the tree held when the response was applied, *)
(* the new children and the nodes of the mutations made while the request  *)
(* was pending, is still in the tree, in the same order.                   *)
ExpandSurvivesItsRelayout ==
    [][(lastOp.op = "aiApplied" /\ OwnTimerFires)
          => IdSeq(Nodes(mindMap')) = IdSeq(Nodes(mindMap))]_vars

(* C9: the position a drag gave a node is not overwritten by a layout pass *)
(* that no later structural mutation has triggered.                        *)
DragHonoredUntilMutation ==
    [][(lastOp.op = "drag" /\ OwnTimerFires /\ Resolves(mindMap', lastOp.id))
          => Position(mindMap', lastOp.id) = Position(mindMap, lastOp.id)]_vars

(* C10: after a node of a published layout has been toggled twice, each    *)
(* toggle followed by its re-layout and nothing else in between, every     *)
(* node has the collapsed state (absent reading as false) and the          *)
(* coordinates it had before the first toggle.                             *)
DoubleToggleRestores ==
    toggled.stage = 4 =>
        LET before == Nodes(toggled.before)
            after == Nodes(mindMap)
        IN  /\ IdSeq(after) = IdSeq(before)
            /\ \A i \in DOMAIN before :
                /\ (after[i].isCollapsed = "true") = (before[i].isCollapsed = "true")
                /\ after[i].x = before[i].x
                /\ after[i].y = before[i].y

(* C10 witness: a node with children has been toggled twice *)
DoubleToggleDone ==
    /\ toggled.stage = 4
    /\ Cardinality(SubtreeIds(toggled.before, toggled.id)) >= 2

(* The texts the user can type that are empty after trimming *)
BlankTexts == { newNodeText \in ManualTexts : Trim(newNodeText) = <<>> }

(* C14: a manual add whose label is empty after trimming creates no node,  *)
(* leaves the tree as it is and sets no re-layout timer.                   *)
BlankManualAddRejected ==
    [][\A newNodeText \in BlankTexts :
          HandleAddManualNodeWith(newNodeText)
              => UNCHANGED <<mindMap, timers, effectTimer>>]_vars

(* C14 witness: a blank label was refused for a parent that is in the tree *)
BlankManualAddWasRefused ==
    /\ lastOp.op = "addRejected"
    /\ Resolves(mindMap, lastOp.id)
    /\ Size(mindMap) < MaxNodes
    /\ timers = <<>>

(* The nodes made from collaborator output: the children and grandchildren *)
(* of a generated map and the children of an expand, by the form of their  *)
(* ids (node-t-i and node-t-i-sub-j)                                       *)
FromCollaborator(node) == Len(node.id) >= 3

(* C16: in every reachable state every node made from collaborator output  *)
(* has a text that is not empty after trimming.                            *)
CollaboratorTextsNonEmpty ==
    mindMap # NoMap =>
        \A n \in SeqToSet(Nodes(mindMap)) : FromCollaborator(n) => Trim(n.text) # <<>>

(* C17: once a map has been generated the tree is never null again, its    *)
(* root has the id 'root', and no other node of the tree has that id:      *)
(* every step keeps a tree, and every tree a step publishes has the root   *)
(* id at its root and nowhere below it.                                    *)
RootIsKept ==
    [][/\ mindMap # NoMap => mindMap' # NoMap
       /\ (mindMap' # NoMap /\ mindMap' # mindMap) =>
             /\ mindMap'.id = RootId
             /\ findNodeById(mindMap'.children, RootId) = NoNode]_vars

(* C17 witness: a delete has been applied and the tree still has its root *)
RootKeptAfterDelete ==
    /\ lastOp.op = "delete"
    /\ mindMap # NoMap
    /\ mindMap.id = RootId

(* Some proper ancestor of the node is collapsed (ids unique) *)
RECURSIVE Hidden(_, _)
Hidden(tree, id) ==
    LET p == ParentId(tree, id)
    IN  IF p = Null THEN FALSE ELSE IsCollapsed(tree, p) \/ Hidden(tree, p)

(* The trees hold the same nodes in the same places, with the same texts,  *)
(* positions and children, and the same flags except for node n            *)
SameButFlagOf(before, after, n) ==
    LET B == Nodes(before)
        A == Nodes(after)
    IN  /\ Len(A) = Len(B)
        /\ \A i \in DOMAIN B :
            /\ A[i].id = B[i].id
            /\ A[i].text = B[i].text
            /\ A[i].x = B[i].x
            /\ A[i].y = B[i].y
            /\ IdSeq(A[i].children) = IdSeq(B[i].children)
            /\ B[i].id # n => A[i].isCollapsed = B[i].isCollapsed

(* C11: a collapse toggle keeps every node with its children, text and     *)
(* flag, only the flag of its target changing; a node is rendered (and a   *)
(* connector drawn to it) exactly when none of its ancestors is collapsed, *)
(* whatever its own flag; and a layout pass leaves the position of every   *)
(* node below a collapsed node as it was.                                  *)
CollapseKeepsAndHides ==
    /\ [](\A id \in IdsOf(mindMap) :
             id \in VisibleIds(mindMap) <=> ~Hidden(mindMap, id))
    /\ [][\A nodeId \in IdsOf(mindMap) :
             ApplyCollapse(nodeId) => SameButFlagOf(mindMap, mindMap', nodeId)]_vars
    /\ [][ApplyReorganize =>
             \A id \in IdsOf(mindMap) :
                 Hidden(mindMap, id) => Position(mindMap', id) = Position(mindMap, id)]_vars

(* C11 witness: a layout pass has run on a tree in which a collapsed node  *)
(* has a child whose own flag is false                                     *)
LaidOutWithHiddenChild ==
    /\ lastOp.op = "layout"
    /\ \E n \in SeqToSet(Nodes(mindMap)) :
          /\ n.isCollapsed = "true"
          /\ \E i \in DOMAIN n.children : n.children[i].isCollapsed = "false"

(* The labels of a batch that are not blank, trimmed, in their order *)
Kept(subtopics) ==
    LET nonBlank == SelectSeq(subtopics, LAMBDA l : Trim(l) # <<>>)
    IN  [k \in DOMAIN nonBlank |-> Trim(nonBlank[k])]

(* after is before with one new leaf per label appended to the children of *)
(* p, in the order of the labels, p uncollapsed and nothing else changed   *)
InsertedUnder(before, after, p, labels) ==
    LET old == findNodeById(<<before>>, p)
        new == findNodeById(<<after>>, p)
    IN  /\ Len(new.children) = Len(old.children) + Len(labels)
        /\ SubSeq(new.children, 1, Len(old.children)) = old.children
        /\ \A k \in DOMAIN labels :
            /\ new.children[Len(old.children) + k].text = labels[k]
            /\ new.children[Len(old.children) + k].children = <<>>
        /\ new.isCollapsed = "false"
        /\ new.text = old.text /\ new.x = old.x /\ new.y = old.y
        /\ Size(after) = Size(before) + Len(labels)
        /\ UniqueIds(after)
        /\ \A m \in IdsOf(before) \ {p} :
            /\ Resolves(after, m)
            /\ ParentId(after, m) = ParentId(before, m)
            /\ findNodeById(<<after>>, m).text = findNodeById(<<before>>, m).text
            /\ findNodeById(<<after>>, m).isCollapsed
                   = findNodeById(<<before>>, m).isCollapsed
            /\ Position(after, m) = Position(before, m)
            /\ ChildIds(after, m) = ChildIds(before, m)

RECURSIVE FlagsRead(_)
FlagsRead(node) ==
    [node EXCEPT !.isCollapsed = IF node.isCollapsed = "true" THEN "true" ELSE "false",
                 !.children = [i \in DOMAIN node.children |-> FlagsRead(node.children[i])]]

(* C13: an expand response whose labels are all blank leaves the tree as   *)
(* it was: no child is added and no field of any node changes, an absent   *)
(* collapsed flag reading as false.                                        *)
BlankBatchLeavesTree ==
    [][\A nodeId \in IdsOf(mindMap), subtopics \in UpdaterBatches :
          (Kept(subtopics) = <<>> /\ ApplyAddAI(nodeId, subtopics))
              => FlagsRead(mindMap') = FlagsRead(mindMap)]_vars

LaidOut(tree) == { id \in IdsOf(tree) : ~Hidden(tree, id) }

PlacedParents(tree, k) ==
    { n \in SeqToSet(Nodes(tree)) :
          /\ n.id \in LaidOut(tree)
          /\ n.isCollapsed # "true"
          /\ Len(n.children) >= k }

(* The ends of the span [x - subtreeWidth/2, x + subtreeWidth/2] of a node *)
SpanLeft(node) == node.x - calculateSubtreeWidth(node) \div 2
SpanRight(node) == node.x + calculateSubtreeWidth(node) \div 2

(* C19: after a layout pass, under every visible non-collapsed node with   *)
(* at least two children, the spans of any two children do not overlap and *)
(* the x positions of the children increase strictly in insertion order.   *)
SiblingSpansDisjoint ==
    lastOp.op = "layout" =>
        \A n \in PlacedParents(mindMap, 2) :
            \A i, j \in DOMAIN n.children :
                i < j => /\ SpanRight(n.children[i]) < SpanLeft(n.children[j])
                         /\ n.children[i].x < n.children[j].x

(* C19 witness: a pass placed two siblings whose subtrees differ in width *)
SiblingsOfUnequalWidthPlaced ==
    /\ lastOp.op = "layout"
    /\ \E n \in PlacedParents(mindMap, 2) :
          \E i, j \in DOMAIN n.children :
              calculateSubtreeWidth(n.children[i])
                  > calculateSubtreeWidth(n.children[j])

(* The root is not collapsed and has exactly three children, none of which *)
(* has children                                                            *)
LoneRootWithThreeLeaves(tree) ==
    /\ tree.isCollapsed # "true"
    /\ Len(tree.children) = 3
    /\ \A i \in DOMAIN tree.children : Len(tree.children[i].children) = 0

(* C20: after a layout pass the root is at its anchor and the children     *)
(* block of every visible non-collapsed parent is centred on the parent:   *)
(* the left end of the first child's slice and the right end of the last   *)
(* child's slice are equally far from the parent's x.  Three leaves under  *)
(* a lone root get distinct x positions symmetric about the root's x, the  *)
(* middle one at the root's x, all of them one level below the root.       *)
ChildrenBlockCentred ==
    lastOp.op = "layout" =>
        /\ Position(mindMap, RootId) = <<OffsetWidth \div 2, ROOT_Y>>
        /\ \A n \in PlacedParents(mindMap, 1) :
              n.x - SpanLeft(n.children[1])
                  = SpanRight(n.children[Len(n.children)]) - n.x
        /\ LoneRootWithThreeLeaves(mindMap) =>
              LET c == mindMap.children
              IN  /\ c[1].x < c[2].x /\ c[2].x < c[3].x
                  /\ c[2].x = mindMap.x
                  /\ mindMap.x - c[1].x = c[3].x - mindMap.x
                  /\ \A i \in 1..3 : c[i].y = ROOT_Y + VERTICAL

(* C20 witness: a pass ran on a root with three leaves inserted under it *)
ThreeLeavesLaidOut ==
    /\ lastOp.op = "layout"
    /\ LoneRootWithThreeLeaves(mindMap)
    /\ \A i \in 1..3 : FromCollaborator(mindMap.children[i])

(* The width the layout pass gives the subtree of the node with this id *)
WidthOf(tree, id) == calculateSubtreeWidth(findNodeById(<<tree>>, id))

(* The other children of the parent of the node *)
SiblingIds(tree, id) ==
    IF ParentId(tree, id) = Null THEN {}
    ELSE SeqToSet(ChildIds(tree, ParentId(tree, id))) \ {id}

(* A visible node that is open and has children: collapsing it hides them *)
OpenParent(tree, id) ==
    /\ ~IsCollapsed(tree, id)
    /\ ChildIds(tree, id) # <<>>
    /\ ~Hidden(tree, id)

(* The scenario: an open root with three children, the middle one `id`,    *)
(* open, with one leaf below it, the other two leaves                      *)
OneGrandchildScenario(tree, id) ==
    /\ tree.isCollapsed # "true"
    /\ Len(tree.children) = 3
    /\ tree.children[2].id = id
    /\ tree.children[2].isCollapsed # "true"
    /\ Len(tree.children[2].children) = 1
    /\ tree.children[2].children[1].children = <<>>
    /\ tree.children[1].children = <<>>
    /\ tree.children[3].children = <<>>

Footprint == NODE_WIDTH + HORIZONTAL \div 2
RECURSIVE ReferenceWidth(_)
ReferenceBlock(node) ==
    SumSeq([i \in DOMAIN node.children |-> ReferenceWidth(node.children[i])])
        + (Len(node.children) - 1) * (HORIZONTAL \div 2)
ReferenceWidth(node) ==
    IF node.isCollapsed = "true" \/ node.children = <<>>
    THEN Footprint
    ELSE Max(Footprint, ReferenceBlock(node))

(* C24: calculateSubtreeWidth gives every node of every tree the reference *)
(* width, and the block a layout pass spreads the children of a node over, *)
(* from the left end of the first slice to the right end of the last one,  *)
(* has the reference width of the children block, centred slices included. *)
SubtreeWidthIsReference ==
    /\ \A n \in SeqToSet(Nodes(mindMap)) :
          calculateSubtreeWidth(n) = ReferenceWidth(n)
    /\ lastOp.op = "layout" =>
          \A n \in PlacedParents(mindMap, 1) :
              LET c == n.children
                  k == Len(c)
              IN  /\ (c[k].x + ReferenceWidth(c[k]) \div 2)
                        - (c[1].x - ReferenceWidth(c[1]) \div 2) = ReferenceBlock(n)
                  /\ \A i \in 1..(k - 1) :
                        c[i + 1].x - c[i].x
                            = ReferenceWidth(c[i]) \div 2 + HORIZONTAL \div 2
                                + ReferenceWidth(c[i + 1]) \div 2

(* C24 witness: a pass has laid out the children of a node whose block is  *)
(* wider than one node, in a tree that also holds a collapsed node with    *)
(* children                                                                *)
WidthsOfSeveralKindsLaidOut ==
    /\ lastOp.op = "layout"
    /\ \E n \in PlacedParents(mindMap, 2) : ReferenceWidth(n) > Footprint
    /\ \E n \in SeqToSet(Nodes(mindMap)) :
          n.isCollapsed = "true" /\ n.children # <<>>

(* The number of edges between the root and the node (ids unique) *)
RECURSIVE Depth(_, _)
Depth(tree, id) ==
    IF ParentId(tree, id) = Null THEN 0 ELSE 1 + Depth(tree, ParentId(tree, id))

(* C25: after a layout pass every visible node at depth d has              *)
(* y = rootY + d * VERTICAL: a visible child lies one level height below   *)
(* its parent, and visible nodes of different depths have different y.     *)
DepthBandsAreLayered ==
    lastOp.op = "layout" =>
        /\ \A id \in LaidOut(mindMap) :
              Position(mindMap, id)[2] = ROOT_Y + Depth(mindMap, id) * VERTICAL
        /\ \A id \in LaidOut(mindMap) \ {RootId} :
              Position(mindMap, id)[2]
                  = Position(mindMap, ParentId(mindMap, id))[2] + VERTICAL
        /\ \A a, b \in LaidOut(mindMap) :
              Depth(mindMap, a) # Depth(mindMap, b)
                  => Position(mindMap, a)[2] # Position(mindMap, b)[2]

(* C25 witness: a pass has laid out nodes on three levels *)
ThreeLevelsLaidOut ==
    /\ lastOp.op = "layout"
    /\ \E id \in LaidOut(mindMap) : Depth(mindMap, id) = 2

(* C30: after a layout pass any two distinct visible nodes of the same     *)
(* depth, siblings or not, are at least NODE_WIDTH apart in x, and the     *)
(* children block of every visible open node lies within the slice of the  *)
(* node, [x - subtreeWidth/2, x + subtreeWidth/2].                         *)
LevelBoxesDisjoint ==
    lastOp.op = "layout" =>
        /\ \A a, b \in LaidOut(mindMap) :
              (a # b /\ Depth(mindMap, a) = Depth(mindMap, b))
                  => \/ Position(mindMap, a)[1] - Position(mindMap, b)[1] >= NODE_WIDTH
                     \/ Position(mindMap, b)[1] - Position(mindMap, a)[1] >= NODE_WIDTH
        /\ \A n \in PlacedParents(mindMap, 1) :
              /\ SpanLeft(n) <= SpanLeft(n.children[1])
              /\ SpanRight(n.children[Len(n.children)]) <= SpanRight(n)

(* C30 witness: a pass has laid out two nodes of the same depth that have  *)
(* different parents                                                       *)
CousinsLaidOut ==
    /\ lastOp.op = "layout"
    /\ \E a, b \in LaidOut(mindMap) \ {RootId} :
          /\ Depth(mindMap, a) = Depth(mindMap, b)
          /\ ParentId(mindMap, a) # ParentId(mindMap, b)

(* C26: right after an insert under a parent that is in the tree, by a     *)
(* manual add or by an expand with a label that is not blank, every node   *)
(* the insert made is visible: it is among the rendered nodes, no ancestor *)
(* of it is collapsed, whichever nodes were collapsed before the insert.   *)
InsertedNodesAreVisible ==
    [][lastOp'.op \in {"add", "aiApplied"} =>
        \A nodeId \in IdsOf(mindMap) :
          (\/ \E newNodeText \in ManualTexts : ApplyAddManual(nodeId, newNodeText)
           \/ \E subtopics \in UpdaterBatches :
                 Kept(subtopics) # <<>> /\ ApplyAddAI(nodeId, subtopics))
              => /\ IdsOf(mindMap') # IdsOf(mindMap)
                 /\ IdsOf(mindMap') \ IdsOf(mindMap) \subseteq VisibleIds(mindMap')]_vars

(* The tree without its coordinates: nodes, nesting, order of children,    *)
(* texts and collapsed flags                                               *)
RECURSIVE Unplaced(_)
Unplaced(node) ==
    [node EXCEPT !.x = 0, !.y = 0,
                 !.children = [i \in DOMAIN node.children |-> Unplaced(node.children[i])]]

(* C27: a layout pass, of a 10 ms timer or of the 100 ms effect, changes   *)
(* only x and y of the tree that is current when it publishes: nodes,      *)
(* nesting, order of children, texts and collapsed flags are the same      *)
(* right before and right after.                                           *)
PassChangesOnlyCoordinates ==
    [][(TimerFires \/ EffectFires) => Unplaced(mindMap') = Unplaced(mindMap)]_vars

(* C28: with no further event re-layout stops.  A pass of the effect that  *)
(* runs with no timer of a mutation left and publishes the tree it read    *)
(* is the last one: no layout timer is pending after it.                   *)
RelayoutComesToRest ==
    [][(EffectFires /\ mindMap' = mindMap) => (~effectTimer' /\ timers' = <<>>)]_vars

(* C29: the response to an expand requested in one map inserts nothing     *)
(* into another map.  A response handled right after a new map has been    *)
(* published belongs to a request of an earlier map, and the new tree      *)
(* holds the same nodes after it as before it.                             *)
ExpandStaysInItsMap ==
    [][(lastOp.op = "generateMap" /\ AIResolved)
          => IdSeq(Nodes(mindMap')) = IdSeq(Nodes(mindMap))]_vars


(* the world point drawn under the container point p *)
WorldPoint(st, p) ==
    [x |-> RatDiv(RatSub(Whole(p.x), st.x), st.scale),
     y |-> RatDiv(RatSub(Whole(p.y), st.y), st.scale)]

StructuredFails(response) ==
    \/ response.kind = "error"
    \/ response.content.kind = "undefined"
    \/ LET parsed == IF response.content.direct.kind # "SyntaxError"
                     THEN response.content.direct
                     ELSE response.content.fenced
       IN \/ parsed.kind = "SyntaxError"
          \/ parsed.kind # "object"
          \/ ~IsStructure(parsed)
          \/ \A i \in DOMAIN parsed.children.items : parsed.children.items[i].kind = "null"

(* the simple request failed, or gave no text, or text with no label in it *)
SimpleFails(response) ==
    \/ response.kind = "error"
    \/ response.content.kind = "undefined"
    \/ TrimmedPieces(split(response.content.value)) = <<>>

(* nothing is cached for the topic *)
Uncached(topic) ==
    /\ localStorage.structure[topic].kind = "null"
    /\ localStorage.simple[topic].kind = "null"

(* C23: generateSubtopics always returns, never throws, a non-empty list   *)
(* of strings; when nothing is cached and both requests fail or give       *)
(* empty, unparsable or malformed data, the list is getGenericSubtopics.   *)
SubtopicsFallBackToGeneric ==
    [][\A topic \in ServiceTopics, structured \in StructuredResponses,
          simple \in SimpleResponses :
          GenerateSubtopicsWith(topic, structured, simple) =>
              /\ returned'.kind = "return"
              /\ Len(returned'.value) > 0
              /\ \A i \in DOMAIN returned'.value : returned'.value[i].kind = "string"
              /\ (Uncached(topic) /\ StructuredFails(structured) /\ SimpleFails(simple))
                     => returned'.value = getGenericSubtopics(topic)]_vars
====
